---- MODULE Spec2Model ----
(***************************************************************************)
(* Kiro MCP Manager: the workspace MCP configuration document, the         *)
(* environment-variables document, the bundled catalog, the server tree    *)
(* view, and the operations of src/src/extension.ts and                    *)
(* src/src/serverLoader.ts that read and write them.                       *)
(*                                                                         *)
(* JavaScript values are records tagged by a field t ("undefined", "null", *)
(* "string", "number", "object", "array").  Text that the code inspects    *)
(* character by character (environment values) is a sequence of tokens.    *)
(***************************************************************************)
EXTENDS Integers, Sequences, FiniteSets, TLC

VARIABLES
  catalog,   \* config/master-servers.json as found on disk
  mcp,       \* .kiro/settings/mcp.json as found on disk
  env,       \* .kiro/settings/env-vars.json as found on disk
  view,      \* the ServerItems last rendered by McpServersProvider.getChildren
  last,      \* the operation that has just run: its arguments and its outcome
  margs,     \* arguments of a stand-alone mergeEnvironmentVariables call
  hook,      \* .kiro/hooks/mcp-server-recommendations.kiro.hook as found on disk
  ref,       \* .kiro/mcp-servers-reference.json as found on disk
  tasks      \* the asynchronous operations in flight, each with what it has read

vars == <<catalog, mcp, env, view, last, margs, hook, ref, tasks>>

---------------------------------------------------------------------------
(* Bounds of the model *)

\* longest recommendation list
MaxRecs == 2
\* longest catalog default value, in tokens
MaxDefaultLen == 3
\* longest workspace value, in tokens
MaxValueLen == 2

---------------------------------------------------------------------------
(* Text *)

CR == "\\r"
LABEL == "Default:"
Tokens == {LABEL, " ", CR, "x"}
ValueTokens == {" ", CR, "v"}

\* what the regular expression class \s and String.trim treat as white space
IsSpace(c) == c \in {" ", CR}

RECURSIVE DropLeadingSpace(_)
DropLeadingSpace(s) ==
  IF s # <<>> /\ IsSpace(Head(s)) THEN DropLeadingSpace(Tail(s)) ELSE s

RECURSIVE DropTrailingSpace(_)
DropTrailingSpace(s) ==
  IF s # <<>> /\ IsSpace(s[Len(s)])
  THEN DropTrailingSpace(SubSeq(s, 1, Len(s) - 1))
  ELSE s

\* String.prototype.trim
Trim(s) == DropTrailingSpace(DropLeadingSpace(s))

\* defaultValue.replace(/^Default:\s*/, '')
StripDefaultLabel(s) ==
  IF s # <<>> /\ Head(s) = LABEL THEN DropLeadingSpace(Tail(s)) ELSE s

StripTrailingCR_Keep(s) == s

\* .replace(/\r$/, '')
StripTrailingCR(s) ==
  IF s # <<>> /\ s[Len(s)] = CR THEN SubSeq(s, 1, Len(s) - 1) ELSE s

---------------------------------------------------------------------------
(* JavaScript values *)

Undefined == [t |-> "undefined"]
Null == [t |-> "null"]
Str(s) == [t |-> "string", v |-> s]
Num(n) == [t |-> "number", v |-> n]
Arr(items) == [t |-> "array", items |-> items]
Obj(m) == [t |-> "object", map |-> m]
TypeError == [t |-> "TypeError"]

\* !value
Falsy(value) ==
  \/ value.t \in {"undefined", "null"}
  \/ value.t = "string" /\ value.v = ""
  \/ value.t = "number" /\ value.v = "0"

NoArgs == [t |-> "none"]
Idle == [op |-> "idle"]

\* the hook file does not exist
NoHook == [kind |-> "absent"]
\* the workspace copy of the catalog does not exist
NoReference == [kind |-> "absent"]
\* the asynchronous operations that may be in flight together
TaskIds == {"a", "b"}
NoTask == [op |-> "none"]
NoTasks == [t \in TaskIds |-> NoTask]

\* what the user does with a modal confirmation dialog other than choosing
\* its affirmative button: the Cancel button, or closing the dialog
Declined == {"Cancel", "dismissed"}

Affirmed_Always(choice, button) == TRUE

\* result === 'Yes, Load Group', result === 'Yes, Load Servers'
Affirmed(choice, button) == choice = button

\* interface McpServer; an absent env and an empty env are both the empty mapping
McpServer(command, envMap) == [t |-> "object", command |-> command, env |-> envMap]

---------------------------------------------------------------------------
(* Config Merger *)

ServerLoader_mergeEnvironmentVariables_Leak(server, envVars) ==
  IF server.t # "object" THEN server
  ELSE LET variables == IF envVars.t = "object" THEN envVars.map ELSE <<>> IN
    IF DOMAIN server.env = {} THEN server
    ELSE [server EXCEPT !.env =
           [k \in DOMAIN server.env \cup DOMAIN variables |->
              IF k \in DOMAIN variables /\ variables[k] # <<>>
                 /\ Trim(variables[k]) # <<>>
              THEN variables[k]
              ELSE IF k \in DOMAIN server.env
                   THEN StripTrailingCR(StripDefaultLabel(server.env[k]))
                   ELSE variables[k]]]

\* ServerLoader.mergeEnvironmentVariables
ServerLoader_mergeEnvironmentVariables(server, envVars) ==
  IF server.t # "object" THEN server
  ELSE LET variables == IF envVars.t = "object" THEN envVars.map ELSE <<>> IN
    IF DOMAIN server.env = {} THEN server
    ELSE [server EXCEPT !.env =
           [k \in DOMAIN server.env |->
              IF k \in DOMAIN variables /\ variables[k] # <<>>
                 /\ Trim(variables[k]) # <<>>
              THEN variables[k]
              ELSE StripTrailingCR(StripDefaultLabel(server.env[k]))]]

\* mergeEnvironmentVariables of extension.ts; reading a property of null or
\* of undefined throws a TypeError
mergeEnvironmentVariables(server, envVars) ==
  IF server.t = "null" THEN TypeError
  ELSE IF server.t # "object" THEN server
  ELSE IF DOMAIN server.env = {} THEN server
  ELSE IF envVars.t # "object" THEN TypeError
  ELSE [server EXCEPT !.env =
         [k \in DOMAIN server.env |->
            IF k \in DOMAIN envVars.map /\ envVars.map[k] # <<>>
               /\ Trim(envVars.map[k]) # <<>>
            THEN envVars.map[k]
            ELSE StripTrailingCR(StripDefaultLabel(server.env[k]))]]

---------------------------------------------------------------------------
(* Catalog Store: config/master-servers.json *)

CatalogServers ==
  ("aws-docs" :> McpServer("uvx", "AWS_PROFILE" :> <<LABEL, " ", "x", CR>>))
    @@ ("github" :> McpServer("npx", <<>>))
    @@ ("broken" :> Str("oops"))

\* the catalog file: readable with a servers object (whose entries may be
\* malformed: a string, a null), readable without a servers object, or
\* missing, unreadable or unparseable
Catalogs ==
  { [kind |-> "ok", servers |-> CatalogServers],
    [kind |-> "ok", servers |-> CatalogServers @@ ("nulled" :> Null)],
    [kind |-> "ok", servers |-> <<>>],
    [kind |-> "noServers"],
    [kind |-> "missing"] }

Notify(level, msg) == [level |-> level, msg |-> msg]

ServerLoader_loadMasterServers_Silent(cat) ==
  IF cat.kind = "ok"
  THEN [threw |-> FALSE, servers |-> cat.servers, notes |-> <<>>]
  ELSE [threw |-> TRUE, servers |-> <<>>, notes |-> <<>>]

\* ServerLoader.loadMasterServers: the servers object, or a file-read error
\* notification and a throw
ServerLoader_loadMasterServers(cat) ==
  IF cat.kind = "ok"
  THEN [threw |-> FALSE, servers |-> cat.servers, notes |-> <<>>]
  ELSE [threw |-> TRUE, servers |-> <<>>,
        notes |-> <<Notify("error", "Failed to read master-servers.json")>>]

\* loadMasterServers of extension.ts: JSON.parse of the file, whatever it holds
loadMasterServers(cat) ==
  IF cat.kind = "missing" THEN [threw |-> TRUE, servers |-> Undefined]
  ELSE IF cat.kind = "noServers" THEN [threw |-> FALSE, servers |-> Undefined]
  ELSE [threw |-> FALSE, servers |-> Obj(cat.servers)]

---------------------------------------------------------------------------
(* Workspace Config Store: .kiro/settings/env-vars.json *)

EnvDocs ==
  { [kind |-> "absent"],
    [kind |-> "corrupt"],
    [kind |-> "noVariables"],
    [kind |-> "ok", variables |-> "AWS_PROFILE" :> <<"v">>],
    [kind |-> "ok", variables |-> "AWS_PROFILE" :> <<"v", "v">>],
    [kind |-> "ok", variables |-> ("AWS_PROFILE" :> <<" ">>) @@ ("SECRET" :> <<"v">>)] }

\* ServerLoader.loadWorkspaceEnvVars, then envVars.variables || {}
ServerLoader_loadWorkspaceEnvVars(envDoc) ==
  IF envDoc.kind = "ok" THEN Obj(envDoc.variables) ELSE Obj(<<>>)

\* loadWorkspaceEnvVars of extension.ts, then envVars.variables
loadWorkspaceEnvVars(envDoc) ==
  IF envDoc.kind = "ok" THEN Obj(envDoc.variables)
  ELSE IF envDoc.kind = "noVariables" THEN Undefined
  ELSE Obj(<<>>)

---------------------------------------------------------------------------
(* Workspace Config Store: .kiro/settings/mcp.json *)

Absent == [kind |-> "absent"]
\* content that JSON.parse rejects (also a truncated or empty file)
Corrupt == [kind |-> "corrupt"]
\* a JSON object without an mcpServers member
NoServers == [kind |-> "noServers"]
\* { mcpServers: servers }, with or without other top-level members
Doc(servers, extra) == [kind |-> "doc", servers |-> servers, extra |-> extra]

ManualEntry == McpServer("manual", <<>>)

\* what the workspace may hold before the extension runs, or after the user
\* edits the file by hand
McpSeeds ==
  { Absent, Corrupt, NoServers,
    Doc(<<>>, FALSE),
    Doc("github" :> CatalogServers["github"], FALSE),
    Doc(("unknown-x" :> ManualEntry) @@ ("github" :> CatalogServers["github"]), TRUE) }

\* outcomes of fs.promises.writeFile(path, json, {flag: 'w'})
WriteOutcomes == {"ok", "failUntouched", "failTruncated"}

\* JSON.stringify of an object: one "key": value member per property, in no
\* particular order here; a property whose value is undefined is left out
JSONStringify_DropsManualEntries(map) ==
  {<<k, map[k]>> : k \in {j \in DOMAIN map : map[j].t # "undefined" /\ map[j] # ManualEntry}}

JSONStringify(map) ==
  {<<k, map[k]>> : k \in {j \in DOMAIN map : map[j].t # "undefined"}}

\* JSON.parse of such a text
JSONParse(members) ==
  [k \in {m[1] : m \in members} |-> (CHOOSE m \in members : m[1] = k)[2]]

\* what a reader finds after writeFile(path, JSON.stringify(config)) succeeded;
\* only the members of mcpServers are followed through the text
Stored(config) ==
  IF config.kind = "doc" /\ "servers" \in DOMAIN config
  THEN Doc(JSONParse(JSONStringify(config.servers)), config.extra)
  ELSE config

\* the file after a write attempt of config
WriteFile(file, config, w) ==
  IF w = "ok" THEN Stored(config)
  ELSE IF w = "failTruncated" THEN Corrupt
  ELSE file

\* ServerLoader.loadWorkspaceMcpConfig: only the mcpServers member is kept
ServerLoader_loadWorkspaceMcpConfig(file) ==
  IF file.kind = "doc" THEN file.servers ELSE <<>>

\* outcomes of a write that succeeded and whose read-back (serverLoader.ts:
\* 782-800) does not verify: the text read back does not parse, has no
\* mcpServers object, or has another number of servers than the one given
Unverified == {"okUnparseable", "okNoMapping", "okCountDiffers"}

\* the file as that read-back finds it
ReadBack(file, config, w) ==
  IF w = "okUnparseable" THEN Corrupt
  ELSE IF w = "okNoMapping" THEN NoServers
  ELSE IF w = "okCountDiffers"
       THEN IF DOMAIN config.servers = {}
            THEN Doc([k \in {"manual"} |-> ManualEntry], FALSE)
            ELSE Doc([k \in DOMAIN config.servers \ {CHOOSE j \in DOMAIN config.servers : TRUE}
                        |-> config.servers[k]], FALSE)
       ELSE WriteFile(file, config, w)

ServerLoader_saveWorkspaceMcpConfig_Escalating(file, mcpServers, w) ==
  [file |-> ReadBack(file, Doc(mcpServers, FALSE), w),
   threw |-> w # "ok",
   notes |-> IF w = "ok" THEN <<>>
             ELSE <<Notify("error", "Configuration write failed")>>]

\* ServerLoader.saveWorkspaceMcpConfig: a failed write notifies and throws, a
\* failed verification is only logged
ServerLoader_saveWorkspaceMcpConfig(file, mcpServers, w) ==
  [file |-> ReadBack(file, Doc(mcpServers, FALSE), w),
   threw |-> w \in {"failUntouched", "failTruncated"},
   notes |-> IF w \in {"failUntouched", "failTruncated"}
             THEN <<Notify("error", "Configuration write failed")>>
             ELSE <<>>]

\* loadWorkspaceMcpConfig of extension.ts: JSON.parse of the file as it is
loadWorkspaceMcpConfig(file) ==
  IF file.kind \in {"absent", "corrupt"} THEN Doc(<<>>, FALSE) ELSE file

\* saveWorkspaceMcpConfig of extension.ts
saveWorkspaceMcpConfig(file, config, w) ==
  [file |-> WriteFile(file, config, w), threw |-> w # "ok"]

---------------------------------------------------------------------------
(* Recommendation Validator and Orchestrator: ServerLoader.loadRecommendedServers *)

\* a recommendation record as the agent or the user supplies it
Rec(serverId, reason) == [t |-> "object", serverId |-> serverId, reason |-> reason]

\* serverId.trim() === ''
IsBlankId(id) == id \in {"", " "}

IsValidRecommendation_NoReason(rec) ==
  /\ rec.t = "object"
  /\ ~Falsy(rec.serverId) /\ rec.serverId.t = "string" /\ ~IsBlankId(rec.serverId.v)

\* the filter of serverLoader.ts:66-80
IsValidRecommendation(rec) ==
  /\ rec.t = "object"
  /\ ~Falsy(rec.serverId) /\ rec.serverId.t = "string" /\ ~IsBlankId(rec.serverId.v)
  /\ ~Falsy(rec.reason) /\ rec.reason.t = "string"

ValidRecommendations_AllOrNothing(items) ==
  IF \A i \in 1..Len(items) : IsValidRecommendation(items[i]) THEN items ELSE <<>>

\* recommendations.filter(rec => ...): the valid records, in their order
ValidRecommendations(items) == SelectSeq(items, IsValidRecommendation)

\* recommendations.length === 0
IsEmptyList_Never(recommendations) == FALSE

IsEmptyList(recommendations) == Len(recommendations.items) = 0

\* rec => rec.serverId over a list of valid records
RECURSIVE ServerIdsOf(_)
ServerIdsOf(recs) ==
  IF recs = <<>> THEN <<>> ELSE <<Head(recs).serverId.v>> \o ServerIdsOf(Tail(recs))

\* ServerLoader.validateServerIds: the ids, in order and with repetitions,
\* whose catalog entry is truthy
RECURSIVE ServerLoader_validateServerIds(_, _)
ServerLoader_validateServerIds(serverIds, masterServers) ==
  IF serverIds = <<>> THEN <<>>
  ELSE LET serverId == Head(serverIds)
           rest == ServerLoader_validateServerIds(Tail(serverIds), masterServers)
       IN IF IsBlankId(serverId) THEN rest
          ELSE IF serverId \in DOMAIN masterServers /\ ~Falsy(masterServers[serverId])
               THEN <<serverId>> \o rest
               ELSE rest

\* newConfig.mcpServers[serverId] = value
SetKey(map, key, value) == [k \in DOMAIN map \cup {key} |-> IF k = key THEN value ELSE map[k]]

\* delete map[key]
DeleteKey(map, key) == [k \in DOMAIN map \ {key} |-> map[k]]

RECURSIVE BuildNewConfig_Aborting(_, _, _, _)
BuildNewConfig_Aborting(validServerIds, masterServers, variables, mcpServers) ==
  IF validServerIds = <<>> THEN mcpServers
  ELSE LET serverId == Head(validServerIds)
           server == masterServers[serverId]
       IN IF server.t # "object"
          THEN <<>>
          ELSE BuildNewConfig_Aborting(Tail(validServerIds), masterServers, variables,
                 SetKey(mcpServers, serverId,
                        ServerLoader_mergeEnvironmentVariables(server, variables)))

\* the loop of serverLoader.ts:154-175 over validServerIds
RECURSIVE BuildNewConfig(_, _, _, _)
BuildNewConfig(validServerIds, masterServers, variables, mcpServers) ==
  IF validServerIds = <<>> THEN mcpServers
  ELSE LET serverId == Head(validServerIds)
           server == masterServers[serverId]
       IN IF server.t # "object"
          THEN BuildNewConfig(Tail(validServerIds), masterServers, variables, mcpServers)
          ELSE BuildNewConfig(Tail(validServerIds), masterServers, variables,
                 SetKey(mcpServers, serverId,
                        ServerLoader_mergeEnvironmentVariables(server, variables)))

NothingToSave_Never(mcpServers) == FALSE

\* Object.keys(newConfig.mcpServers).length === 0
NothingToSave(mcpServers) == DOMAIN mcpServers = {}

\* ServerLoader.showSuccessNotification
SuccessNotification(serverIds) ==
  [level |-> "information", msg |-> "Successfully loaded",
   count |-> Len(serverIds), ids |-> serverIds]

Outcome(file, ret, notes, writes) ==
  [file |-> file, ret |-> ret, notes |-> notes, writes |-> writes]

WriteOf(what, mcpServers, w) == [what |-> what, servers |-> mcpServers, outcome |-> w]

SaveWithRollback_Retrying(file, newServers, validServerIds, w1, w2) ==
  LET saved == ServerLoader_saveWorkspaceMcpConfig(file, newServers, w1)
  IN IF ~saved.threw
     THEN Outcome(saved.file, Len(validServerIds),
                  <<SuccessNotification(validServerIds)>>,
                  <<WriteOf("new", newServers, w1)>>)
     ELSE LET again == ServerLoader_saveWorkspaceMcpConfig(saved.file, newServers, w2)
          IN Outcome(again.file, IF again.threw THEN 0 ELSE Len(validServerIds),
                     IF again.threw THEN saved.notes
                     ELSE <<SuccessNotification(validServerIds)>>,
                     <<WriteOf("new", newServers, w1), WriteOf("new", newServers, w2)>>)

\* serverLoader.ts:184-208: read the original, save the new configuration,
\* restore the original when the save throws
SaveWithRollback(file, newServers, validServerIds, w1, w2) ==
  LET originalConfig == ServerLoader_loadWorkspaceMcpConfig(file)
      saved == ServerLoader_saveWorkspaceMcpConfig(file, newServers, w1)
  IN IF ~saved.threw
     THEN Outcome(saved.file, Len(validServerIds),
                  <<SuccessNotification(validServerIds)>>,
                  <<WriteOf("new", newServers, w1)>>)
     ELSE LET restored == ServerLoader_saveWorkspaceMcpConfig(saved.file, originalConfig, w2)
          IN Outcome(restored.file, 0, saved.notes \o restored.notes,
                     <<WriteOf("new", newServers, w1),
                       WriteOf("rollback", originalConfig, w2)>>)

\* ServerLoader.loadRecommendedServers (context is always supplied by the
\* command); w1 and w2 are the outcomes of the write and of the rollback write
ServerLoader_loadRecommendedServers(recommendations, cat, envDoc, file, w1, w2) ==
  IF Falsy(recommendations)
  THEN Outcome(file, 0, <<Notify("information", "No MCP servers recommended for this design.")>>, <<>>)
  ELSE IF recommendations.t # "array"
  THEN Outcome(file, 0, <<Notify("error", "Invalid recommendations format received from agent")>>, <<>>)
  ELSE IF IsEmptyList(recommendations)
  THEN Outcome(file, 0, <<Notify("information", "No MCP servers recommended for this design.")>>, <<>>)
  ELSE LET validRecommendations == ValidRecommendations(recommendations.items) IN
  IF validRecommendations = <<>>
  THEN Outcome(file, 0, <<Notify("error", "All recommendations were invalid or malformed")>>, <<>>)
  ELSE LET master == ServerLoader_loadMasterServers(cat) IN
  IF master.threw THEN Outcome(file, 0, master.notes, <<>>)
  ELSE IF DOMAIN master.servers = {} THEN Outcome(file, 0, <<>>, <<>>)
  ELSE LET validServerIds ==
             ServerLoader_validateServerIds(ServerIdsOf(validRecommendations), master.servers) IN
  IF validServerIds = <<>>
  THEN Outcome(file, 0, <<Notify("warning", "No valid MCP servers found in recommendations.")>>, <<>>)
  ELSE LET variables == ServerLoader_loadWorkspaceEnvVars(envDoc)
           newServers == BuildNewConfig(validServerIds, master.servers, variables, <<>>) IN
  IF NothingToSave(newServers)
  THEN Outcome(file, 0, <<Notify("error", "Failed to configure any recommended servers")>>, <<>>)
  ELSE SaveWithRollback(file, newServers, validServerIds, w1, w2)

\* what ServerLoader.loadRecommendedServers may be handed
RecItems ==
  { Rec(Str("aws-docs"), Str("r1")),
    Rec(Str("github"), Str("r2")),
    Rec(Str("unknown-x"), Str("r3")),
    Rec(Str("broken"), Str("r4")),
    Rec(Str("nulled"), Str("r6")),
    Rec(Str("github"), Undefined),
    Rec(Str(" "), Str("r5")),
    Null }

RecLists == UNION {[1..n -> RecItems] : n \in 0..MaxRecs}

RecInputs ==
  { Null, Undefined, Str("not json"), Num("5"), Rec(Str("github"), Str("r2")) }
    \cup {Arr(l) : l \in RecLists}

\* a direct call of ServerLoader.loadRecommendedServers
LoadRecommendedServers(recommendations, w1, w2) ==
  /\ last = Idle /\ margs = NoArgs
  /\ LET out == ServerLoader_loadRecommendedServers(recommendations, catalog, env, mcp, w1, w2)
     IN /\ mcp' = out.file
        /\ last' = [op |-> "loadRecommendedServers",
                    recommendations |-> recommendations,
                    before |-> mcp,
                    called |-> TRUE,
                    ret |-> out.ret, notes |-> out.notes, writes |-> out.writes]
  /\ UNCHANGED <<catalog, env, view, margs, hook, ref, tasks>>

\* McpServersProvider.getChildren: one ServerItem per catalog entry, or no
\* item at all when anything throws (the active-only and text filters only
\* hide items and are left out)
RenderedItems(cat, file) ==
  LET masterServers == loadMasterServers(cat)
      currentConfig == loadWorkspaceMcpConfig(file)
  IN IF masterServers.threw \/ masterServers.servers.t = "undefined" THEN <<>>
     ELSE IF DOMAIN masterServers.servers.map = {} THEN <<>>
     ELSE IF currentConfig.kind = "noServers" THEN <<>>
     ELSE IF \E id \in DOMAIN masterServers.servers.map :
               masterServers.servers.map[id].t = "null" THEN <<>>
     ELSE [id \in DOMAIN masterServers.servers.map |->
             [server |-> masterServers.servers.map[id],
              isActive |-> id \in DOMAIN currentConfig.servers]]

\* the command zenMcp.loadRecommendedServers: input is what the input box
\* returns (undefined when dismissed, else text that validateInput accepted,
\* here already parsed), choice is the button of the modal dialog
LoadRecommendedServersCommand(input, choice, w1, w2) ==
  /\ last = Idle /\ margs = NoArgs
  /\ LET NoCall(notes) == Outcome(mcp, 0, notes, <<>>)
         called == /\ input.t = "array" /\ input.items # <<>>
                   /\ \A i \in 1..Len(input.items) : input.items[i].t # "null"
                   /\ Affirmed(choice, "Yes, Load Servers")
         inner == ServerLoader_loadRecommendedServers(input, catalog, env, mcp, w1, w2)
         out == IF input.t # "array" THEN NoCall(<<>>)
                ELSE IF input.items = <<>>
                THEN NoCall(<<Notify("information", "No servers recommended")>>)
                ELSE IF \E i \in 1..Len(input.items) : input.items[i].t = "null"
                THEN NoCall(<<Notify("error", "Failed to load servers")>>)
                ELSE IF ~Affirmed(choice, "Yes, Load Servers") THEN NoCall(<<>>)
                ELSE IF inner.ret > 0
                THEN [inner EXCEPT !.notes = @ \o
                        <<[level |-> "information", msg |-> "Successfully loaded",
                           count |-> inner.ret, ids |-> <<>>]>>]
                ELSE inner
     IN /\ mcp' = out.file
        /\ last' = [op |-> "loadRecommendedServersCommand",
                    recommendations |-> input,
                    choice |-> choice,
                    before |-> mcp,
                    called |-> called,
                    ret |-> out.ret, notes |-> out.notes, writes |-> out.writes]
        /\ view' = IF called /\ out.ret > 0 THEN RenderedItems(catalog, out.file)
                   ELSE view
  /\ UNCHANGED <<catalog, env, margs, hook, ref, tasks>>

\* the handler has returned and the host is ready for the next command
Return ==
  /\ last # Idle /\ margs = NoArgs
  /\ last' = Idle
  /\ UNCHANGED <<catalog, mcp, env, view, margs, hook, ref, tasks>>

\* the user edits .kiro/settings/mcp.json by hand
UserEditsMcp(d) ==
  /\ last = Idle /\ margs = NoArgs
  /\ d # mcp
  /\ mcp' = d
  /\ UNCHANGED <<catalog, env, view, last, margs, hook, ref, tasks>>

\* the user edits .kiro/settings/env-vars.json by hand
UserEditsEnvVars(e) ==
  /\ last = Idle /\ margs = NoArgs
  /\ e # env
  /\ env' = e
  /\ UNCHANGED <<catalog, mcp, view, last, margs, hook, ref, tasks>>

Init ==
  /\ catalog \in Catalogs
  /\ mcp \in McpSeeds
  /\ env \in EnvDocs
  /\ view = <<>>
  /\ last = Idle
  /\ margs = NoArgs
  /\ hook = NoHook
  /\ ref = NoReference
  /\ tasks = NoTasks

\* the rollback write happens only after a failed write
WritePairs == {w \in WriteOutcomes \X WriteOutcomes : w[1] = "ok" => w[2] = "ok"}

\* the same, with the outcomes of the read-back after each write
VerifyPairs ==
  {w \in (WriteOutcomes \cup Unverified) \X (WriteOutcomes \cup Unverified) :
     w[1] \in {"ok"} \cup Unverified => w[2] = "ok"}

NextVerify ==
  \/ \E l \in RecLists, w \in VerifyPairs :
       LoadRecommendedServers(Arr(l), w[1], w[2])
  \/ \E d \in McpSeeds : UserEditsMcp(d)
  \/ Return

\* the recommendation path with read-backs that do not verify
SpecVerify == Init /\ [][NextVerify]_vars

NextReco ==
  \/ \E r \in RecInputs, w \in WritePairs :
       LoadRecommendedServers(r, w[1], w[2])
  \/ \E l \in RecLists, w \in WritePairs :
       LoadRecommendedServersCommand(Arr(l), "Yes, Load Servers", w[1], w[2])
  \/ \E input \in {Undefined} \cup {Arr(l) : l \in RecLists}, c \in Declined :
       LoadRecommendedServersCommand(input, c, "ok", "ok")
  \/ \E d \in McpSeeds : UserEditsMcp(d)
  \/ \E e \in EnvDocs : UserEditsEnvVars(e)
  \/ Return

SpecReco == Init /\ [][NextReco]_vars

---------------------------------------------------------------------------
(* Commands of extension.ts: load group, toggle server, and the server view *)

\* the groups of config/grouped-servers.json offered in the group view
Groups ==
  { [name |-> "Core", servers |-> <<"aws-docs", "github">>],
    [name |-> "Mixed", servers |-> <<"github", "broken", "unknown-x">>],
    [name |-> "Stale", servers |-> <<"nulled", "aws-docs">>],
    [name |-> "None", servers |-> <<>>] }

RECURSIVE GroupConfig_StaleEnv(_, _, _, _)
GroupConfig_StaleEnv(serverIds, servers, variables, mcpServers) ==
  IF serverIds = <<>> THEN [threw |-> FALSE, servers |-> mcpServers]
  ELSE IF servers.t = "undefined" THEN [threw |-> TRUE, servers |-> mcpServers]
  ELSE LET serverId == Head(serverIds) IN
    IF serverId \in DOMAIN servers.map /\ ~Falsy(servers.map[serverId])
    THEN GroupConfig_StaleEnv(Tail(serverIds), servers, variables,
                              SetKey(mcpServers, serverId, servers.map[serverId]))
    ELSE GroupConfig_StaleEnv(Tail(serverIds), servers, variables, mcpServers)

\* the loop of extension.ts:612-617, started from the configuration mcpServers
RECURSIVE GroupConfig(_, _, _, _)
GroupConfig(serverIds, servers, variables, mcpServers) ==
  IF serverIds = <<>> THEN [threw |-> FALSE, servers |-> mcpServers]
  ELSE IF servers.t = "undefined" THEN [threw |-> TRUE, servers |-> mcpServers]
  ELSE LET serverId == Head(serverIds) IN
    IF serverId \in DOMAIN servers.map /\ ~Falsy(servers.map[serverId])
    THEN LET serverWithEnv == mergeEnvironmentVariables(servers.map[serverId], variables)
         IN IF serverWithEnv.t = "TypeError"
            THEN [threw |-> TRUE, servers |-> mcpServers]
            ELSE GroupConfig(Tail(serverIds), servers, variables,
                             SetKey(mcpServers, serverId, serverWithEnv))
    ELSE GroupConfig(Tail(serverIds), servers, variables, mcpServers)

loadServerGroup_Merging(group, cat, envDoc, file, w) ==
  LET masterServers == loadMasterServers(cat)
      newConfig == GroupConfig(group.servers, masterServers.servers,
                               loadWorkspaceEnvVars(envDoc),
                               loadWorkspaceMcpConfig(IF file.kind = "noServers" THEN Absent ELSE file).servers)
  IN IF masterServers.threw \/ newConfig.threw
     THEN [file |-> file, threw |-> TRUE]
     ELSE saveWorkspaceMcpConfig(file, Doc(newConfig.servers, FALSE), w)

\* loadServerGroup
loadServerGroup(group, cat, envDoc, file, w) ==
  LET masterServers == loadMasterServers(cat)
      newConfig == GroupConfig(group.servers, masterServers.servers,
                               loadWorkspaceEnvVars(envDoc), <<>>)
  IN IF masterServers.threw \/ newConfig.threw
     THEN [file |-> file, threw |-> TRUE]
     ELSE saveWorkspaceMcpConfig(file, Doc(newConfig.servers, FALSE), w)

toggleServer_Replacing(serverId, server, envDoc, file, w) ==
  LET currentConfig == loadWorkspaceMcpConfig(file) IN
  IF currentConfig.kind = "noServers" THEN [file |-> file, threw |-> TRUE]
  ELSE IF serverId \in DOMAIN currentConfig.servers
  THEN saveWorkspaceMcpConfig(file,
         Doc(DeleteKey(currentConfig.servers, serverId), currentConfig.extra), w)
  ELSE LET serverWithEnv == mergeEnvironmentVariables(server, loadWorkspaceEnvVars(envDoc))
       IN IF serverWithEnv.t = "TypeError" THEN [file |-> file, threw |-> TRUE]
          ELSE saveWorkspaceMcpConfig(file,
                 Doc(SetKey(<<>>, serverId, serverWithEnv), currentConfig.extra), w)

\* toggleServer
toggleServer(serverId, server, envDoc, file, w) ==
  LET currentConfig == loadWorkspaceMcpConfig(file) IN
  IF currentConfig.kind = "noServers" THEN [file |-> file, threw |-> TRUE]
  ELSE IF serverId \in DOMAIN currentConfig.servers
  THEN saveWorkspaceMcpConfig(file,
         Doc(DeleteKey(currentConfig.servers, serverId), currentConfig.extra), w)
  ELSE LET serverWithEnv == mergeEnvironmentVariables(server, loadWorkspaceEnvVars(envDoc))
       IN IF serverWithEnv.t = "TypeError" THEN [file |-> file, threw |-> TRUE]
          ELSE saveWorkspaceMcpConfig(file,
                 Doc(SetKey(currentConfig.servers, serverId, serverWithEnv),
                     currentConfig.extra), w)

\* the host asks the server view for its items
GetChildren ==
  /\ last = Idle /\ margs = NoArgs
  /\ view' = RenderedItems(catalog, mcp)
  /\ UNCHANGED <<catalog, mcp, env, last, margs, hook, ref, tasks>>

\* the command zenMcp.loadGroup on a group item; choice is the button of the
\* modal dialog
LoadGroupCommand(group, choice, w) ==
  /\ last = Idle /\ margs = NoArgs
  /\ LET confirmed == Affirmed(choice, "Yes, Load Group")
         out == IF confirmed THEN loadServerGroup(group, catalog, env, mcp, w)
                ELSE [file |-> mcp, threw |-> FALSE]
     IN /\ mcp' = out.file
        /\ last' = [op |-> "loadGroupCommand",
                    group |-> group,
                    choice |-> choice,
                    before |-> mcp,
                    called |-> confirmed,
                    threw |-> out.threw,
                    write |-> IF confirmed
                                 /\ ~loadServerGroup(group, catalog, env, mcp, "ok").threw
                              THEN w ELSE "none",
                    notes |-> IF confirmed /\ ~out.threw
                              THEN <<Notify("information", "Loaded server group successfully!")>>
                              ELSE <<>>]
        /\ view' = IF confirmed /\ ~out.threw THEN RenderedItems(catalog, out.file)
                   ELSE view
  /\ UNCHANGED <<catalog, env, margs, hook, ref, tasks>>

\* the command zenMcp.toggleServer on a rendered server item
ToggleServerCommand(serverId, w) ==
  /\ last = Idle /\ margs = NoArgs
  /\ serverId \in DOMAIN view
  /\ LET item == view[serverId]
         out == toggleServer(serverId, item.server, env, mcp, w)
     IN /\ mcp' = out.file
        /\ last' = [op |-> "toggleServerCommand",
                    serverId |-> serverId,
                    server |-> item.server,
                    isActive |-> item.isActive,
                    before |-> mcp,
                    threw |-> out.threw,
                    write |-> IF toggleServer(serverId, item.server, env, mcp, "ok").threw
                              THEN "none" ELSE w,
                    notes |-> IF out.threw THEN <<>>
                              ELSE <<Notify("information",
                                       IF item.isActive THEN "removed" ELSE "added")>>]
        /\ view' = IF out.threw THEN view ELSE RenderedItems(catalog, out.file)
  /\ UNCHANGED <<catalog, env, margs, hook, ref, tasks>>

ServerIds == {"aws-docs", "github", "broken", "nulled"}

NextCommands ==
  \/ \E g \in Groups, w \in WriteOutcomes : LoadGroupCommand(g, "Yes, Load Group", w)
  \/ \E g \in Groups, c \in Declined : LoadGroupCommand(g, c, "ok")
  \/ \E id \in ServerIds, w \in WriteOutcomes : ToggleServerCommand(id, w)
  \/ GetChildren
  \/ \E d \in McpSeeds : UserEditsMcp(d)
  \/ \E e \in EnvDocs : UserEditsEnvVars(e)
  \/ Return

SpecCommands == Init /\ [][NextCommands]_vars

\* every command of the extension, with recommendation lists of one record
Next ==
  \/ \E g \in Groups, w \in WriteOutcomes : LoadGroupCommand(g, "Yes, Load Group", w)
  \/ \E g \in Groups, c \in Declined : LoadGroupCommand(g, c, "ok")
  \/ \E id \in ServerIds, w \in WriteOutcomes : ToggleServerCommand(id, w)
  \/ GetChildren
  \/ \E item \in RecItems, w \in WritePairs :
       LoadRecommendedServers(Arr(<<item>>), w[1], w[2])
  \/ \E item \in RecItems, w \in WritePairs :
       LoadRecommendedServersCommand(Arr(<<item>>), "Yes, Load Servers", w[1], w[2])
  \/ \E input \in {Undefined} \cup {Arr(<<item>>) : item \in RecItems}, c \in Declined :
       LoadRecommendedServersCommand(input, c, "ok", "ok")
  \/ \E d \in McpSeeds : UserEditsMcp(d)
  \/ \E e \in EnvDocs : UserEditsEnvVars(e)
  \/ Return

Spec == Init /\ [][Next]_vars

---------------------------------------------------------------------------
(* Activation: HookManager.ensureHook *)

\* HookManager.createHookConfig
createHookConfig ==
  [enabled |-> FALSE,
   name |-> "MCP Server Recommendations for Project",
   description |-> "Analyzes all design documents in the project",
   version |-> "1",
   when |-> [type |-> "userTriggered", patterns |-> <<".kiro/specs/*/design.md">>],
   then |-> [type |-> "askAgent", prompt |-> "prompt"]]

\* HookManager.validateHookConfig, on a configuration that has every field
validateHookConfig(config) ==
  /\ config.enabled \in BOOLEAN
  /\ config.name # ""
  /\ config.description # ""
  /\ config.version # ""
  /\ config.when.type \in {"fileCreated", "fileEdited", "fileSaved", "fileDeleted", "userTriggered"}
  /\ config.when.patterns # <<>>
  /\ config.then.type = "askAgent"
  /\ config.then.prompt # ""

\* a hook file that parses to config
HookDoc(config) == [kind |-> "doc", config |-> config]

\* the hook file as an activation may find it: absent, as generated, enabled
\* by the user, stripped of its required fields, or not parseable
HookSeeds ==
  { NoHook,
    HookDoc(createHookConfig),
    HookDoc([createHookConfig EXCEPT !.enabled = TRUE]),
    HookDoc([enabled |-> TRUE]),
    Corrupt }

\* a workspace copy of the catalog file cat
ReferenceCopy(cat) == [kind |-> "copy", of |-> cat]

\* the copy as an activation may find it: absent, or made from an older catalog
ReferenceSeeds == { NoReference, ReferenceCopy([kind |-> "ok", servers |-> <<>>]) }

\* HookManager.copyMasterServersToWorkspace: the bundled file is copied as
\* text; every failure is logged and swallowed
copyMasterServersToWorkspace(refFile, cat, w) ==
  IF cat.kind = "missing" THEN [file |-> refFile, write |-> "none"]
  ELSE [file |-> WriteFile(refFile, ReferenceCopy(cat), w), write |-> w]

\* HookManager.createHook: a failed mkdir or writeFile throws, a failed
\* verification is only logged
createHook(hookFile, config, w) ==
  [file |-> WriteFile(hookFile, HookDoc(config), w), threw |-> w # "ok", write |-> w]

HookManager_ensureHook_Repairing(hookFile, refFile, cat, hookConfig, wr, wh) ==
  IF hookFile.kind = "doc" /\ "name" \in DOMAIN hookFile.config
  THEN [hook |-> hookFile, ref |-> refFile, hookWrite |-> "none", refWrite |-> "none",
        notes |-> <<>>, rejected |-> FALSE]
  ELSE LET copied == copyMasterServersToWorkspace(refFile, cat, wr)
           created == createHook(hookFile, hookConfig, wh)
       IN [hook |-> created.file, ref |-> copied.file, hookWrite |-> created.write,
           refWrite |-> copied.write,
           notes |-> IF created.threw THEN <<>>
                     ELSE <<Notify("information", "MCP Design Analyzer hook created!")>>,
           rejected |-> FALSE]

HookManager_ensureHook_Refreshing(hookFile, refFile, cat, hookConfig, wr, wh) ==
  LET copied == copyMasterServersToWorkspace(refFile, cat, wr) IN
  IF hookFile.kind # "absent"
  THEN [hook |-> hookFile, ref |-> copied.file, hookWrite |-> "none",
        refWrite |-> copied.write, notes |-> <<>>, rejected |-> FALSE]
  ELSE IF ~validateHookConfig(hookConfig)
    THEN [hook |-> hookFile, ref |-> copied.file, hookWrite |-> "none",
          refWrite |-> copied.write,
          notes |-> <<Notify("error", "Failed to create MCP hook")>>, rejected |-> FALSE]
    ELSE LET created == createHook(hookFile, hookConfig, wh) IN
         [hook |-> created.file, ref |-> copied.file, hookWrite |-> created.write,
          refWrite |-> copied.write,
          notes |-> IF created.threw THEN <<>>
                    ELSE <<Notify("information", "MCP Design Analyzer hook created!")>>,
          rejected |-> FALSE]

HookManager_ensureHook_Rethrowing(hookFile, refFile, cat, hookConfig, wr, wh) ==
  IF hookFile.kind # "absent"
  THEN [hook |-> hookFile, ref |-> refFile, hookWrite |-> "none", refWrite |-> "none",
        notes |-> <<>>, rejected |-> FALSE]
  ELSE LET copied == copyMasterServersToWorkspace(refFile, cat, wr)
           created == createHook(hookFile, hookConfig, wh)
       IN [hook |-> created.file, ref |-> copied.file, hookWrite |-> created.write,
           refWrite |-> copied.write,
           notes |-> IF created.threw THEN <<>>
                     ELSE <<Notify("information", "MCP Design Analyzer hook created!")>>,
           rejected |-> created.threw]

\* HookManager.ensureHook with the generated configuration hookConfig; wr and
\* wh are the outcomes of the write of the copy and of the hook file
HookManager_ensureHook(hookFile, refFile, cat, hookConfig, wr, wh) ==
  IF hookFile.kind # "absent"
  THEN [hook |-> hookFile, ref |-> refFile, hookWrite |-> "none", refWrite |-> "none",
        notes |-> <<>>, rejected |-> FALSE]
  ELSE LET copied == copyMasterServersToWorkspace(refFile, cat, wr) IN
    IF ~validateHookConfig(hookConfig)
    THEN [hook |-> hookFile, ref |-> copied.file, hookWrite |-> "none",
          refWrite |-> copied.write,
          notes |-> <<Notify("error", "Failed to create MCP hook")>>, rejected |-> FALSE]
    ELSE LET created == createHook(hookFile, hookConfig, wh) IN
         [hook |-> created.file, ref |-> copied.file, hookWrite |-> created.write,
          refWrite |-> copied.write,
          notes |-> IF created.threw THEN <<>>
                    ELSE <<Notify("information", "MCP Design Analyzer hook created!")>>,
          rejected |-> FALSE]

\* what the previous call of ensureHook did, when the call that has just run
\* followed it directly
NoPrevious == [op |-> "none"]

\* activate calls HookManager.ensureHook; a second activation (a window
\* reload) may follow the first directly
EnsureHookWith(hookConfig, wr, wh) ==
  /\ margs = NoArgs /\ tasks = NoTasks
  /\ \/ last = Idle
     \/ last.op = "ensureHook" /\ last.previous = NoPrevious
  /\ LET out == HookManager_ensureHook(hook, ref, catalog, hookConfig, wr, wh)
     IN /\ hook' = out.hook
        /\ ref' = out.ref
        /\ last' = [op |-> "ensureHook",
                    generated |-> hookConfig,
                    rejected |-> out.rejected,
                    before |-> hook,
                    refBefore |-> ref,
                    hookWrite |-> out.hookWrite,
                    refWrite |-> out.refWrite,
                    notes |-> out.notes,
                    previous |-> IF last = Idle THEN NoPrevious
                                 ELSE [op |-> "ensureHook", before |-> last.before,
                                       hookWrite |-> last.hookWrite]]
  /\ UNCHANGED <<catalog, mcp, env, view, margs, tasks>>

\* the call with the configuration that createHookConfig returns
EnsureHook(wr, wh) == EnsureHookWith(createHookConfig, wr, wh)

\* configurations on which validateHookConfig decides: the one of
\* createHookConfig, and ones with an empty prompt, an unsupported action, no
\* pattern, or an unknown trigger
HookConfigs ==
  { createHookConfig,
    [createHookConfig EXCEPT !.then.prompt = ""],
    [createHookConfig EXCEPT !.then.type = "runCommand"],
    [createHookConfig EXCEPT !.when.patterns = <<>>],
    [createHookConfig EXCEPT !.when.type = "onTimer"] }

\* the user edits or deletes the hook file
UserEditsHook(h) ==
  /\ last = Idle /\ margs = NoArgs /\ tasks = NoTasks
  /\ h # hook
  /\ hook' = h
  /\ UNCHANGED <<catalog, mcp, env, view, last, margs, ref, tasks>>

\* the user deletes the workspace copy of the catalog
UserDeletesReference ==
  /\ last = Idle /\ margs = NoArgs /\ tasks = NoTasks
  /\ ref # NoReference
  /\ ref' = NoReference
  /\ UNCHANGED <<catalog, mcp, env, view, last, margs, hook, tasks>>

---------------------------------------------------------------------------
(* Activation and zenMcp.manageEnvVars: creation of env-vars.json *)

\* the bundled template config/env-vars.json
EnvVarsTemplate == [kind |-> "ok", variables |-> <<>>]

EnvOps == {"ensureEnvVarsConfig", "manageEnvVars"}

\* ensureEnvVarsConfig or the command up to the end of fs.promises.access:
\* when the file is there ensureEnvVarsConfig is done and the command opens
\* the file; when it is not, the creation from the template is still to come
CheckEnvVars(t, op) ==
  /\ last = Idle /\ margs = NoArgs
  /\ tasks[t] = NoTask
  /\ tasks' = [tasks EXCEPT ![t] =
       IF env.kind = "absent"
       THEN [op |-> op, pc |-> "create"]
       ELSE [op |-> op, pc |-> "done", write |-> "none", found |-> env,
             notes |-> IF op = "manageEnvVars"
                       THEN <<Notify("information", "Edit your environment variables and save the file.")>>
                       ELSE <<>>]]
  /\ UNCHANGED <<catalog, mcp, env, view, last, margs, hook, ref>>

\* loadEnvVarsTemplate and saveWorkspaceEnvVars, then for the command the
\* opening of the file; ensureEnvVarsConfig logs a failure, the command
\* reports it
CreateEnvVars(t, templateReadable, w) ==
  /\ last = Idle /\ margs = NoArgs
  /\ tasks[t].op \in EnvOps
  /\ tasks[t].pc = "create"
  /\ LET written == IF templateReadable THEN WriteFile(env, EnvVarsTemplate, w) ELSE env
         threw == ~templateReadable \/ w # "ok"
     IN /\ env' = written
        /\ tasks' = [tasks EXCEPT ![t] =
             [op |-> tasks[t].op, pc |-> "done",
              write |-> IF templateReadable THEN w ELSE "none",
              found |-> env,
              notes |-> IF tasks[t].op = "ensureEnvVarsConfig" THEN <<>>
                        ELSE IF threw
                        THEN <<Notify("error", "Failed to open env-vars.json")>>
                        ELSE <<Notify("information", "Edit your environment variables and save the file.")>>]]
  /\ UNCHANGED <<catalog, mcp, view, last, margs, hook, ref>>

\* the promise of a finished operation is settled
FinishTask(t) ==
  /\ tasks[t] # NoTask
  /\ tasks[t].pc = "done"
  /\ tasks' = [tasks EXCEPT ![t] = NoTask]
  /\ UNCHANGED <<catalog, mcp, env, view, last, margs, hook, ref>>

InitActivation ==
  /\ catalog \in Catalogs
  /\ mcp = Absent
  /\ env = [kind |-> "absent"]
  /\ view = <<>>
  /\ last = Idle
  /\ margs = NoArgs
  /\ hook \in HookSeeds
  /\ ref \in ReferenceSeeds
  /\ tasks = NoTasks

NextActivation ==
  \/ \E wr \in WriteOutcomes, wh \in WriteOutcomes : EnsureHook(wr, wh)
  \/ \E h \in HookSeeds : UserEditsHook(h)
  \/ UserDeletesReference
  \/ Return

\* activation with every configuration of HookConfigs as the generated one,
\* which takes ensureHook through its validation branch
NextHookConfig ==
  \/ \E c \in HookConfigs, wr \in WriteOutcomes, wh \in WriteOutcomes : EnsureHookWith(c, wr, wh)
  \/ \E h \in HookSeeds : UserEditsHook(h)
  \/ UserDeletesReference
  \/ Return

SpecHookConfig == InitActivation /\ [][NextHookConfig]_vars

SpecActivation == InitActivation /\ [][NextActivation]_vars

\* activation's ensureEnvVarsConfig and the command zenMcp.manageEnvVars, in
\* flight together, while the user edits or deletes the file
InitEnvVars ==
  /\ catalog = [kind |-> "ok", servers |-> CatalogServers]
  /\ mcp = Absent
  /\ env \in EnvDocs
  /\ view = <<>>
  /\ last = Idle
  /\ margs = NoArgs
  /\ hook = NoHook
  /\ ref = NoReference
  /\ tasks = NoTasks

NextEnvVars ==
  \/ \E t \in TaskIds, op \in EnvOps : CheckEnvVars(t, op)
  \/ \E t \in TaskIds, r \in BOOLEAN, w \in WriteOutcomes : CreateEnvVars(t, r, w)
  \/ \E t \in TaskIds : FinishTask(t)
  \/ \E e \in EnvDocs : UserEditsEnvVars(e)

SpecEnvVars == InitEnvVars /\ [][NextEnvVars]_vars

---------------------------------------------------------------------------
(* Overlapping operations on the configuration document: each operation
   awaits its reads and then awaits its write, and the commands do not wait
   for one another *)

ConfigOps == {"toggleServer", "loadServerGroup", "loadRecommendedServers"}

\* recommendation lists of the overlapping calls
ConcurrentRecs ==
  { <<Rec(Str("aws-docs"), Str("r1"))>>,
    <<Rec(Str("github"), Str("r2")), Rec(Str("aws-docs"), Str("r1"))>> }

\* toggleServer up to the end of `await loadWorkspaceMcpConfig()`
BeginToggle(t, serverId) ==
  /\ last = Idle /\ margs = NoArgs
  /\ tasks[t] = NoTask
  /\ serverId \in DOMAIN RenderedItems(catalog, mcp)
  /\ tasks' = [tasks EXCEPT ![t] =
       [op |-> "toggleServer", pc |-> "write", serverId |-> serverId,
        server |-> RenderedItems(catalog, mcp)[serverId].server,
        read |-> mcp]]
  /\ UNCHANGED <<catalog, mcp, env, view, last, margs, hook, ref>>

\* loadServerGroup up to the end of its awaited reads
BeginLoadGroup(t, group) ==
  /\ last = Idle /\ margs = NoArgs
  /\ tasks[t] = NoTask
  /\ tasks' = [tasks EXCEPT ![t] =
       [op |-> "loadServerGroup", pc |-> "write", group |-> group, read |-> mcp]]
  /\ UNCHANGED <<catalog, mcp, env, view, last, margs, hook, ref>>

\* ServerLoader.loadRecommendedServers up to the end of
\* `originalConfig = await this.loadWorkspaceMcpConfig()`
BeginLoadRecommended(t, recs) ==
  /\ last = Idle /\ margs = NoArgs
  /\ tasks[t] = NoTask
  /\ tasks' = [tasks EXCEPT ![t] =
       [op |-> "loadRecommendedServers", pc |-> "write",
        recommendations |-> Arr(recs), read |-> mcp]]
  /\ UNCHANGED <<catalog, mcp, env, view, last, margs, hook, ref>>

\* the document an operation hands to its save when file is what it read,
\* or threw when it saves nothing
ComputedFrom(task, file) ==
  IF task.op = "toggleServer"
  THEN toggleServer(task.serverId, task.server, env, file, "ok")
  ELSE IF task.op = "loadServerGroup"
  THEN loadServerGroup(task.group, catalog, env, file, "ok")
  ELSE LET out == ServerLoader_loadRecommendedServers(task.recommendations, catalog,
                                                      env, file, "ok", "ok")
       IN [file |-> out.file, threw |-> out.writes = <<>>]

Computed_Rereading(task) == ComputedFrom(task, mcp)

\* the operation computes from the document it read when it began
Computed(task) == ComputedFrom(task, task.read)

\* the awaited save of the operation; loadRecommendedServers follows a failed
\* save with the save of the original it read (w2)
WriteTask(t, w, w2) ==
  /\ last = Idle /\ margs = NoArgs
  /\ tasks[t] # NoTask
  /\ tasks[t].op \in ConfigOps
  /\ tasks[t].pc = "write"
  /\ LET c == Computed(tasks[t])
         written == WriteFile(mcp, c.file, w)
     IN /\ mcp' = IF c.threw THEN mcp
                  ELSE IF tasks[t].op = "loadRecommendedServers" /\ w # "ok"
                  THEN ServerLoader_saveWorkspaceMcpConfig(written,
                         ServerLoader_loadWorkspaceMcpConfig(tasks[t].read), w2).file
                  ELSE written
        /\ tasks' = [tasks EXCEPT ![t] =
             [tasks[t] EXCEPT !.pc = "done"] @@
             [write |-> IF c.threw THEN "none" ELSE w, found |-> mcp]]
  /\ UNCHANGED <<catalog, env, view, last, margs, hook, ref>>

InitConcurrent ==
  /\ catalog = [kind |-> "ok", servers |-> CatalogServers]
  /\ mcp \in McpSeeds
  /\ env = [kind |-> "ok", variables |-> "AWS_PROFILE" :> <<"v">>]
  /\ view = <<>>
  /\ last = Idle
  /\ margs = NoArgs
  /\ hook = NoHook
  /\ ref = NoReference
  /\ tasks = NoTasks

NextConcurrent ==
  \/ \E t \in TaskIds, id \in ServerIds : BeginToggle(t, id)
  \/ \E t \in TaskIds, g \in Groups : BeginLoadGroup(t, g)
  \/ \E t \in TaskIds, l \in ConcurrentRecs : BeginLoadRecommended(t, l)
  \/ \E t \in TaskIds, w \in WritePairs : WriteTask(t, w[1], w[2])

\* two operations, each run once, in every interleaving of their steps
SpecConcurrent == InitConcurrent /\ [][NextConcurrent]_vars

---------------------------------------------------------------------------
(* Stand-alone save followed by load of the configuration document *)

\* values a property of mcpServers may hold when the document is saved
EntryValues == {CatalogServers["github"], ManualEntry, Str("oops"), Undefined}

RoundTripKeys == {"aws-docs", "github", "unknown-x"}

\* the mcpServers objects handed to a save
RoundTripServers ==
  UNION {[keys -> EntryValues] : keys \in SUBSET RoundTripKeys}

\* the mcpServers member of a loaded configuration, empty when it has none
Keyed(config) == IF config.kind = "doc" THEN config.servers ELSE <<>>

\* ServerLoader.saveWorkspaceMcpConfig({mcpServers}) and then
\* ServerLoader.loadWorkspaceMcpConfig()
ServerLoaderSaveThenLoad(mcpServers, w) ==
  /\ last = Idle /\ margs = NoArgs
  /\ LET saved == ServerLoader_saveWorkspaceMcpConfig(mcp, mcpServers, w)
     IN /\ mcp' = saved.file
        /\ last' = [op |-> "saveThenLoad",
                    by |-> "ServerLoader",
                    given |-> mcpServers,
                    threw |-> saved.threw,
                    loaded |-> ServerLoader_loadWorkspaceMcpConfig(saved.file)]
  /\ UNCHANGED <<catalog, env, view, margs, hook, ref, tasks>>

\* saveWorkspaceMcpConfig(config) and then loadWorkspaceMcpConfig() of
\* extension.ts
ExtensionSaveThenLoad(mcpServers, extra, w) ==
  /\ last = Idle /\ margs = NoArgs
  /\ LET saved == saveWorkspaceMcpConfig(mcp, Doc(mcpServers, extra), w)
     IN /\ mcp' = saved.file
        /\ last' = [op |-> "saveThenLoad",
                    by |-> "extension",
                    given |-> mcpServers,
                    threw |-> saved.threw,
                    loaded |-> Keyed(loadWorkspaceMcpConfig(saved.file))]
  /\ UNCHANGED <<catalog, env, view, margs, hook, ref, tasks>>

InitRoundTrip ==
  /\ catalog = [kind |-> "ok", servers |-> CatalogServers]
  /\ mcp \in McpSeeds
  /\ env = [kind |-> "absent"]
  /\ view = <<>>
  /\ last = Idle
  /\ margs = NoArgs
  /\ hook = NoHook
  /\ ref = NoReference
  /\ tasks = NoTasks

NextRoundTrip ==
  \/ \E d \in RoundTripServers, w \in WriteOutcomes : ServerLoaderSaveThenLoad(d, w)
  \/ \E d \in RoundTripServers, x \in BOOLEAN, w \in WriteOutcomes :
       ExtensionSaveThenLoad(d, x, w)
  \/ Return

SpecRoundTrip == InitRoundTrip /\ [][NextRoundTrip]_vars

---------------------------------------------------------------------------
(* Stand-alone calls of the two mergers, over every bounded input *)

Strings(alphabet, n) == UNION {[1..k -> alphabet] : k \in 0..n}
DefaultValues == Strings(Tokens, MaxDefaultLen)
WorkspaceValues == Strings(ValueTokens, MaxValueLen)

MergeServers ==
  {McpServer("uvx", <<>>)}
    \cup {McpServer("uvx", "K" :> d) : d \in DefaultValues}
    \cup {McpServer("uvx", ("K" :> d) @@ ("K2" :> <<LABEL, " ", "x", CR>>)) :
            d \in DefaultValues}

MergeVariables ==
  {a @@ b : a \in {<<>>} \cup {"K" :> w : w \in WorkspaceValues},
            b \in {<<>>, "SECRET" :> <<"v">>}}

MergeOps == {"ServerLoader.mergeEnvironmentVariables", "mergeEnvironmentVariables"}

ApplyServerLoaderMerge ==
  /\ margs # NoArgs
  /\ last = Idle
  /\ last' = [op |-> "ServerLoader.mergeEnvironmentVariables",
              result |-> ServerLoader_mergeEnvironmentVariables(margs.server, margs.envVars)]
  /\ UNCHANGED <<catalog, mcp, env, view, margs, hook, ref, tasks>>

ApplyExtensionMerge ==
  /\ margs # NoArgs
  /\ last = Idle
  /\ last' = [op |-> "mergeEnvironmentVariables",
              result |-> mergeEnvironmentVariables(margs.server, margs.envVars)]
  /\ UNCHANGED <<catalog, mcp, env, view, margs, hook, ref, tasks>>

InitMerge ==
  /\ catalog = [kind |-> "missing"]
  /\ mcp = [kind |-> "absent"]
  /\ env = [kind |-> "absent"]
  /\ view = <<>>
  /\ last = Idle
  /\ margs \in {[server |-> s, envVars |-> Obj(v)] : s \in MergeServers, v \in MergeVariables}
  /\ hook = NoHook
  /\ ref = NoReference
  /\ tasks = NoTasks

NextMerge == ApplyServerLoaderMerge \/ ApplyExtensionMerge

SpecMerge == InitMerge /\ [][NextMerge]_vars

---------------------------------------------------------------------------
(* Claims about the Config Merger, checked under SpecMerge *)

MergeOf(op, server, envVars) ==
  IF op = "ServerLoader.mergeEnvironmentVariables"
  THEN ServerLoader_mergeEnvironmentVariables(server, envVars)
  ELSE mergeEnvironmentVariables(server, envVars)

\* a workspace value that is present and not blank
NonBlank(variables, k) ==
  k \in DOMAIN variables /\ \E i \in 1..Len(variables[k]) : ~IsSpace(variables[k][i])

RECURSIVE DropAllTrailingCR(_)
DropAllTrailingCR(s) ==
  IF s # <<>> /\ s[Len(s)] = CR THEN DropAllTrailingCR(SubSeq(s, 1, Len(s) - 1)) ELSE s

\* the default as the claim describes it: the label "Default: " taken off the
\* front, every carriage return taken off the end
DefaultAsStated(d) ==
  DropAllTrailingCR(IF Len(d) >= 2 /\ d[1] = LABEL /\ d[2] = " "
                    THEN SubSeq(d, 3, Len(d)) ELSE d)

\* r is d without its leading "Default:" and the white space after it, and
\* without one trailing carriage return
IsCleaned(d, r) ==
  \E i \in 1..(Len(d) + 1), j \in 0..Len(d) :
    /\ r = SubSeq(d, i, j)
    /\ IF d # <<>> /\ d[1] = LABEL
       THEN /\ i >= 2
            /\ \A m \in 2..(i - 1) : IsSpace(d[m])
            /\ i <= Len(d) => ~IsSpace(d[i])
       ELSE i = 1
    /\ IF i <= Len(d) /\ d[Len(d)] = CR THEN j = Len(d) - 1 ELSE j = Len(d)

\* C6 as stated: no env keys gives the definition back; otherwise exactly the
\* declared keys, each the non-blank workspace value verbatim or else the
\* default without the "Default: " label and without any trailing carriage
\* return, all other fields as in the catalog.
C6_MergeAsStated ==
  last.op \in MergeOps =>
    LET s == margs.server
        v == margs.envVars.map
        r == last.result
    IN IF DOMAIN s.env = {} THEN r = s
       ELSE /\ r.t = "object"
            /\ r.command = s.command
            /\ DOMAIN r.env = DOMAIN s.env
            /\ \A k \in DOMAIN s.env :
                 r.env[k] = IF NonBlank(v, k) THEN v[k] ELSE DefaultAsStated(s.env[k])

\* C6 amended: as C6, but the default loses a leading "Default:" together
\* with all white space after it, and at most one trailing carriage return.
C6_MergeCleansLabelAndOneCR ==
  last.op \in MergeOps =>
    LET s == margs.server
        v == margs.envVars.map
        r == last.result
    IN IF DOMAIN s.env = {} THEN r = s
       ELSE /\ r.t = "object"
            /\ r.command = s.command
            /\ DOMAIN r.env = DOMAIN s.env
            /\ \A k \in DOMAIN s.env :
                 IF NonBlank(v, k) THEN r.env[k] = v[k] ELSE IsCleaned(s.env[k], r.env[k])

\* a merge fell back to a default that ends in two carriage returns and took
\* one of them off
C6_Witness ==
  /\ last.op \in MergeOps
  /\ "K" \in DOMAIN margs.server.env
  /\ margs.server.env["K"] = <<"x", CR, CR>>
  /\ ~NonBlank(margs.envVars.map, "K")
  /\ last.result.env["K"] = <<"x", CR>>

Agree(v1, v2, keys) ==
  \A k \in keys : /\ (k \in DOMAIN v1) = (k \in DOMAIN v2)
                  /\ k \in DOMAIN v1 => v1[k] = v2[k]

\* C7: workspace variables the server does not declare have no influence: the
\* merged env has exactly the declared keys, and any variable mapping that
\* agrees with the one used on the declared keys gives the same result.
C7_UndeclaredVariablesIgnored ==
  last.op \in MergeOps =>
    /\ DOMAIN last.result.env = DOMAIN margs.server.env
    /\ \A v2 \in MergeVariables :
         Agree(margs.envVars.map, v2, DOMAIN margs.server.env)
           => MergeOf(last.op, margs.server, Obj(v2)) = last.result

\* a server with declared keys was merged while the workspace held an
\* undeclared variable
C7_Witness ==
  /\ last.op \in MergeOps
  /\ DOMAIN margs.server.env = {"K", "K2"}
  /\ "SECRET" \in DOMAIN margs.envVars.map
  /\ "SECRET" \notin DOMAIN last.result.env

---------------------------------------------------------------------------
(* Claims about ServerLoader.loadRecommendedServers, checked under SpecReco *)

\* the keys of mcpServers in the document on disk
Keys(file) == IF file.kind = "doc" THEN DOMAIN file.servers ELSE {}

\* the handler that has just run called ServerLoader.loadRecommendedServers
RecoCalled ==
  /\ last.op \in {"loadRecommendedServers", "loadRecommendedServersCommand"}
  /\ last.called

RecoItems == IF last.recommendations.t = "array" THEN last.recommendations.items ELSE <<>>

\* the keys of the catalog read by the call
CatalogKeys == IF catalog.kind = "ok" THEN DOMAIN catalog.servers ELSE {}

\* serverIds of the list that are non-empty strings and catalog keys
WellFormedIdsInCatalog ==
  { id \in CatalogKeys :
      \E i \in 1..Len(RecoItems) :
        /\ RecoItems[i].t = "object"
        /\ RecoItems[i].serverId = Str(id) }

\* serverIds of the records that carry a non-blank string serverId and a
\* non-empty string reason, and whose catalog entry is an object
QualifyingIds ==
  { id \in CatalogKeys :
      /\ catalog.servers[id].t = "object"
      /\ \E i \in 1..Len(RecoItems) :
           /\ RecoItems[i].t = "object"
           /\ RecoItems[i].serverId = Str(id)
           /\ RecoItems[i].reason.t = "string"
           /\ RecoItems[i].reason.v # "" }

\* C1 as stated: after a call that returns a count > 0 the key set of the
\* document is exactly the well-formed serverIds of the list that are
\* catalog keys
C1_KeysAreWellFormedCatalogIds ==
  (RecoCalled /\ last.ret > 0) => Keys(mcp) = WellFormedIdsInCatalog

\* C1 amended: after a call that returns a count > 0 the key set of the
\* document is exactly the serverIds of the records that pass the record
\* validation (serverId and reason) and whose catalog entry is an object;
\* nothing of the previous document remains
C1_KeysAreQualifyingIds ==
  (RecoCalled /\ last.ret > 0) =>
     /\ mcp.kind = "doc"
     /\ Keys(mcp) = QualifyingIds
     /\ mcp.extra = FALSE

C1_Witness ==
  /\ last.op = "loadRecommendedServers"
  /\ last.ret > 0
  /\ last.recommendations =
       Arr(<<Rec(Str("aws-docs"), Str("r1")), Rec(Str("github"), Undefined)>>)
  /\ "unknown-x" \in Keys(last.before)
  /\ Keys(mcp) = {"aws-docs"}

\* the write of the new configuration failed
NewWriteFailed ==
  /\ RecoCalled
  /\ last.writes # <<>>
  /\ last.writes[1].outcome # "ok"

\* C2 as stated: when the write of the new configuration fails and a document
\* existed before, the document on disk equals the previous one when the call
\* returns, and the call returns 0
C2_RollbackRestoresDocument ==
  (NewWriteFailed /\ last.before.kind # "absent") =>
     /\ mcp = last.before
     /\ last.ret = 0

\* C3: an empty recommendation list, given to loadRecommendedServers or to
\* the command, writes nothing and ends with informational notifications
\* only, none of them the success notification
C3_EmptyListIsInformational ==
  ( /\ last.op \in {"loadRecommendedServers", "loadRecommendedServersCommand"}
    /\ last.recommendations = Arr(<<>>) ) =>
     /\ mcp = last.before
     /\ last.writes = <<>>
     /\ last.ret = 0
     /\ last.notes # <<>>
     /\ \A i \in 1..Len(last.notes) :
          /\ last.notes[i].level = "information"
          /\ last.notes[i].msg # "Successfully loaded"

C3_Witness ==
  /\ last.op = "loadRecommendedServers"
  /\ last.recommendations = Arr(<<>>)
  /\ last.before.kind = "doc"
  /\ Keys(last.before) # {}
  /\ mcp = last.before
  /\ last.notes = <<Notify("information", "No MCP servers recommended for this design.")>>

\* C4 as stated: an input that is not a sequence writes nothing, returns 0
\* and is reported with the invalid-format error
C4_NonSequenceIsFormatError ==
  ( /\ last.op = "loadRecommendedServers"
    /\ last.recommendations.t # "array" ) =>
     /\ mcp = last.before
     /\ last.writes = <<>>
     /\ last.ret = 0
     /\ last.notes =
          <<Notify("error", "Invalid recommendations format received from agent")>>

\* the success notification of the call, if it raised one
SuccessNotes ==
  { i \in 1..Len(last.notes) :
      last.notes[i].msg = "Successfully loaded" /\ "ids" \in DOMAIN last.notes[i] }

\* C5 as stated: on a successful call the return value and the count and ID
\* list of the success notification equal the number of entries written
C5_CountIsEntriesWritten ==
  (RecoCalled /\ last.ret > 0) =>
     /\ last.ret = Cardinality(Keys(mcp))
     /\ \A i \in SuccessNotes :
          /\ last.notes[i].count = Cardinality(Keys(mcp))
          /\ (last.notes[i].ids # <<>> => Len(last.notes[i].ids) = Cardinality(Keys(mcp)))

---------------------------------------------------------------------------
(* Claims about loadServerGroup and toggleServer, checked under SpecCommands,
   and about every write of the extension, checked under Spec *)

\* loadServerGroup has just run to completion
GroupLoaded ==
  /\ last.op = "loadGroupCommand"
  /\ last.called
  /\ ~last.threw

GroupMembers == {last.group.servers[i] : i \in 1..Len(last.group.servers)}

\* every entry of the document is the catalog definition merged with the
\* environment values now in .kiro/settings/env-vars.json
EntriesAreFreshlyMerged ==
  \A id \in Keys(mcp) :
    /\ id \in CatalogKeys
    /\ mcp.servers[id] =
         mergeEnvironmentVariables(catalog.servers[id], loadWorkspaceEnvVars(env))

\* C8 as stated: after loadServerGroup(g) the key set of the document is
\* exactly the members of g.servers that are catalog keys, each entry freshly
\* merged, whatever the document held before
C8_GroupLoadWritesCatalogMembers ==
  GroupLoaded =>
     /\ mcp.kind = "doc"
     /\ Keys(mcp) = GroupMembers \cap CatalogKeys
     /\ EntriesAreFreshlyMerged

\* C8 amended: after loadServerGroup(g) the document holds mcpServers only,
\* its key set is exactly the members of g.servers whose catalog entry is
\* present and truthy, and each entry is the catalog definition merged with
\* the environment values read by that call, whatever the document held before
C8_GroupLoadWritesTruthyMembers ==
  GroupLoaded =>
     /\ mcp.kind = "doc"
     /\ mcp.extra = FALSE
     /\ Keys(mcp) = {id \in GroupMembers \cap CatalogKeys : catalog.servers[id].t # "null"}
     /\ EntriesAreFreshlyMerged

\* the group is loaded over a document that already held the same servers with
\* other environment values
C8_Witness ==
  /\ GroupLoaded
  /\ last.group.name = "Core"
  /\ last.before.kind = "doc"
  /\ Keys(last.before) = {"aws-docs", "github", "unknown-x"}
  /\ Keys(mcp) = {"aws-docs", "github"}
  /\ mcp.servers["aws-docs"].env # last.before.servers["aws-docs"].env
  /\ mcp.servers["aws-docs"].env["AWS_PROFILE"] = <<"v", "v">>

\* toggleServer has just run
Toggled == last.op = "toggleServerCommand"

\* what toggleServer read as the current configuration
ToggleBefore ==
  IF last.before.kind = "doc" THEN last.before ELSE Doc(<<>>, FALSE)

\* C9: a toggle that completes removes the entry of id when id is a key of
\* the document and otherwise adds the catalog definition merged with the
\* current environment values; every other entry, and every other member of
\* the document, is as before.  A toggle that throws before writing leaves
\* the document as it was.
C9_ToggleChangesOnlyItsEntry ==
  Toggled =>
     /\ ~last.threw =>
          /\ mcp.kind = "doc"
          /\ mcp.extra = ToggleBefore.extra
          /\ \A k \in (Keys(mcp) \cup Keys(ToggleBefore)) \ {last.serverId} :
               /\ k \in Keys(mcp) /\ k \in Keys(ToggleBefore)
               /\ mcp.servers[k] = ToggleBefore.servers[k]
          /\ last.serverId \in Keys(ToggleBefore) => last.serverId \notin Keys(mcp)
          /\ last.serverId \notin Keys(ToggleBefore) =>
               /\ last.serverId \in Keys(mcp)
               /\ mcp.servers[last.serverId] =
                    mergeEnvironmentVariables(catalog.servers[last.serverId],
                                              loadWorkspaceEnvVars(env))
     /\ (last.threw /\ mcp.kind # "corrupt") => mcp = last.before

\* a server is added next to an entry the user wrote by hand
C9_Witness ==
  /\ Toggled
  /\ ~last.threw
  /\ last.serverId = "aws-docs"
  /\ Keys(last.before) = {"unknown-x"}
  /\ Keys(mcp) = {"aws-docs", "unknown-x"}
  /\ mcp.servers["unknown-x"] = last.before.servers["unknown-x"]

\* the last handler wrote the document by a group load or by the write of a
\* new recommended configuration
WroteNewDocument ==
  \/ GroupLoaded
  \/ /\ RecoCalled
     /\ last.writes # <<>>
     /\ last.writes[1].outcome = "ok"

\* the last handler wrote the document by a toggle or by a rollback
WroteOldDocument ==
  \/ Toggled /\ ~last.threw
  \/ /\ RecoCalled
     /\ Len(last.writes) = 2
     /\ last.writes[2].outcome = "ok"

\* C10 as stated: after any write of the extension (group load, toggle,
\* recommendation load or rollback) every key of the document is a catalog
\* serverId
C10_EveryWrittenKeyIsInCatalog ==
  (WroteNewDocument \/ WroteOldDocument) => Keys(mcp) \subseteq CatalogKeys

\* C10 amended: after a group load or the write of a new recommended
\* configuration every key of the document is a catalog serverId; after a
\* toggle or a rollback every key is a catalog serverId or a key the document
\* already had
C10_NewDocumentsHoldCatalogKeys ==
  /\ WroteNewDocument => Keys(mcp) \subseteq CatalogKeys
  /\ WroteOldDocument => Keys(mcp) \subseteq CatalogKeys \cup Keys(last.before)

\* a recommendation load replaces a document that held an unknown ID
C10_Witness ==
  /\ last.op = "loadRecommendedServersCommand"
  /\ last.ret = 1
  /\ "unknown-x" \in Keys(last.before)
  /\ Keys(mcp) = {"github"}

---------------------------------------------------------------------------
(* Claims about activation, checked under SpecActivation and SpecEnvVars *)

\* HookManager.ensureHook has just run
HookEnsured == last.op = "ensureHook"

\* the call that has just run directly followed a call that found no hook file
SecondOfTwoCalls ==
  /\ HookEnsured
  /\ last.previous # NoPrevious
  /\ last.previous.before = NoHook

Wrote(write) == IF write = "none" THEN 0 ELSE 1

\* C11 as stated: ensureHook writes nothing when the hook file exists, whatever
\* it holds, and two consecutive calls that start without a hook file perform
\* exactly one write of it
C11_HookWrittenExactlyOnce ==
  /\ (HookEnsured /\ last.before # NoHook) =>
        last.hookWrite = "none" /\ hook = last.before
  /\ SecondOfTwoCalls =>
        Wrote(last.previous.hookWrite) + Wrote(last.hookWrite) = 1

\* C11 amended: ensureHook writes nothing when the hook file exists, whatever
\* it holds; of two consecutive calls that start without a hook file the first
\* writes, and the second writes again exactly when the first write failed
\* without leaving a file
C11_HookWrittenOnlyWhenAbsent ==
  /\ (HookEnsured /\ last.before # NoHook) =>
        last.hookWrite = "none" /\ hook = last.before
  /\ (HookEnsured /\ last.before = NoHook) => last.hookWrite # "none"
  /\ SecondOfTwoCalls =>
        /\ last.previous.hookWrite # "none"
        /\ last.hookWrite # "none" <=> last.previous.hookWrite = "failUntouched"

C11_Witness ==
  /\ SecondOfTwoCalls
  /\ last.previous.hookWrite = "ok"
  /\ last.hookWrite = "none"
  /\ hook = HookDoc(createHookConfig)

\* an operation in flight has finished after writing env-vars.json
EnvVarsWritten(t) ==
  /\ tasks[t].op \in EnvOps
  /\ tasks[t].pc = "done"
  /\ tasks[t].write # "none"

\* C12 as stated: once env-vars.json exists no operation of the extension
\* writes to it, in every interleaving of activation with the commands: an
\* operation that wrote the file found it absent when it wrote
C12_EnvVarsNeverOverwritten ==
  \A t \in TaskIds : EnvVarsWritten(t) => tasks[t].found.kind = "absent"

---------------------------------------------------------------------------
(* Claims about the Config Writer, checked under SpecRoundTrip *)

\* a save has just completed and the document was read back
SavedAndLoaded == last.op = "saveThenLoad" /\ ~last.threw

\* every property of the saved mcpServers holds a server object
WellFormedServers(mcpServers) ==
  \A k \in DOMAIN mcpServers : mcpServers[k].t = "object"

---------------------------------------------------------------------------
(* Claims about the confirmation dialogs, checked under Spec *)

\* a command that asks for confirmation has just run
ConfirmingCommand ==
  last.op \in {"loadGroupCommand", "loadRecommendedServersCommand"}

AffirmativeButton ==
  IF last.op = "loadGroupCommand" THEN "Yes, Load Group" ELSE "Yes, Load Servers"

\* the command attempted a write of the configuration document
CommandWrote ==
  \/ last.op = "loadGroupCommand" /\ last.called /\ (~last.threw \/ mcp # last.before)
  \/ last.op = "loadRecommendedServersCommand" /\ last.writes # <<>>

\* C14: the load-group and load-recommendations commands write, or change, the
\* configuration document only when the user chose the affirmative button of
\* the dialog; cancelling or dismissing the dialog or the input box leaves the
\* document unchanged
C14_WritesOnlyAfterConfirmation ==
  ConfirmingCommand =>
     /\ (CommandWrote \/ mcp # last.before) => last.choice = AffirmativeButton
     /\ last.choice \in Declined =>
          /\ mcp = last.before
          /\ ~last.called
          /\ ~CommandWrote
     /\ (last.op = "loadRecommendedServersCommand" /\ last.recommendations = Undefined) =>
          mcp = last.before /\ ~last.called

C14_Witness ==
  /\ last.op = "loadGroupCommand"
  /\ last.choice = "dismissed"
  /\ last.group.name = "Core"
  /\ Keys(last.before) = {"github"}
  /\ mcp = last.before

---------------------------------------------------------------------------
(* Claims about the failure paths of ServerLoader.loadRecommendedServers,
   checked under SpecReco *)

\* C15 as stated: every run of loadRecommendedServers ends with at least one
\* notification to the user
C15_EveryRunNotifies ==
  RecoCalled => last.notes # <<>>

\* at least one record of the list passes the record validation, so that the
\* call reaches the load of the catalog
SomeRecordValid ==
  \E i \in 1..Len(RecoItems) :
    /\ RecoItems[i].t = "object"
    /\ RecoItems[i].serverId.t = "string"
    /\ RecoItems[i].serverId.v \notin {"", " "}
    /\ RecoItems[i].reason.t = "string"

\* the catalog file is missing, unreadable, empty, unparseable or without a
\* servers object
CatalogUnloadable == catalog.kind # "ok"

FileReadError == Notify("error", "Failed to read master-servers.json")

\* C16: when the catalog cannot be loaded the call writes nothing and returns
\* 0, and the failed load is reported with the file-read error, which is none
\* of the bad-input and no-valid-servers notifications
C16_CatalogFailureIsTerminal ==
  (RecoCalled /\ CatalogUnloadable) =>
     /\ mcp = last.before
     /\ last.writes = <<>>
     /\ last.ret = 0
     /\ SomeRecordValid => last.notes = <<FileReadError>>

C16_Witness ==
  /\ last.op = "loadRecommendedServers"
  /\ catalog.kind = "noServers"
  /\ last.recommendations = Arr(<<Rec(Str("github"), Str("r2"))>>)
  /\ last.notes = <<FileReadError>>
  /\ Keys(last.before) = {"github"}
  /\ mcp = last.before

\* C17: when no server survives validation and merging the call writes
\* nothing, leaves the document as it was and returns 0
C17_NothingSurvivesNothingWritten ==
  (RecoCalled /\ QualifyingIds = {}) =>
     /\ last.writes = <<>>
     /\ mcp = last.before
     /\ last.ret = 0

\* a catalog key whose entry is not an object is recommended over a document
\* that holds servers
C17_Witness ==
  /\ last.op = "loadRecommendedServers"
  /\ last.recommendations = Arr(<<Rec(Str("broken"), Str("r4"))>>)
  /\ catalog.kind = "ok"
  /\ Keys(last.before) = {"github", "unknown-x"}
  /\ mcp = last.before
  /\ last.notes = <<Notify("error", "Failed to configure any recommended servers")>>

\* the write of the new configuration succeeded and its read-back did not verify
ReadBackFailed ==
  /\ RecoCalled
  /\ last.writes # <<>>
  /\ last.writes[1].outcome \in Unverified

\* C18: when the read-back after the write does not parse, has no mcpServers
\* object or has another number of servers, the save does not throw: the call
\* reports success, returns a positive count and writes no rollback
C18_VerificationErrorNotEscalated ==
  ReadBackFailed =>
     /\ Len(last.writes) = 1
     /\ last.ret > 0
     /\ Len(last.notes) = 1
     /\ last.notes[1].level = "information"

C18_Witness ==
  /\ ReadBackFailed
  /\ last.writes[1].outcome = "okCountDiffers"
  /\ last.recommendations = Arr(<<Rec(Str("aws-docs"), Str("r1")), Rec(Str("github"), Str("r2"))>>)
  /\ last.ret = 2
  /\ mcp.kind = "doc"
  /\ Cardinality(DOMAIN mcp.servers) = 1

---------------------------------------------------------------------------
(* Claims about the document on disk under all operations, checked under Spec *)

\* the document is absent, or parses and holds an mcpServers object
StructurallyValid(file) == file.kind \in {"absent", "doc"}

\* an operation of the extension has just run on a document that was
\* structurally valid
RanOnValidDocument ==
  /\ last # Idle
  /\ "before" \in DOMAIN last
  /\ StructurallyValid(last.before)

\* C19 as stated: no operation of the extension, a failed or truncated write
\* and a rollback attempt included, leaves a document that does not parse or
\* has no mcpServers object where there was a structurally valid one
C19_DocumentStaysStructurallyValid ==
  RanOnValidDocument => StructurallyValid(mcp)

---------------------------------------------------------------------------
(* Claims about overlapping operations, checked under SpecConcurrent *)

\* the document after the toggle alone ran on file
AfterToggle(task, file) ==
  toggleServer(task.serverId, task.server, env, file, "ok").file

\* both operations are toggles, of different servers, that read the same
\* document (so both read before either wrote) and both saved
TwoTogglesOverlapped ==
  /\ \A t \in TaskIds :
       /\ tasks[t] # NoTask
       /\ tasks[t].op = "toggleServer"
       /\ tasks[t].pc = "done"
       /\ tasks[t].write = "ok"
  /\ tasks["a"].serverId # tasks["b"].serverId
  /\ tasks["a"].read = tasks["b"].read

\* the results of the two sequential orders of the toggles on the document
\* both read
SequentialResults ==
  { AfterToggle(tasks["b"], AfterToggle(tasks["a"], tasks["a"].read)),
    AfterToggle(tasks["a"], AfterToggle(tasks["b"], tasks["a"].read)) }

\* C20: whenever two toggles of different servers both read the document
\* before either saves, the document left is the one that one of them
\* computed alone from what it read, and it is the result of neither
\* sequential order: the other update is lost
C20_OverlappingTogglesLoseAnUpdate ==
  TwoTogglesOverlapped =>
     /\ mcp \in {AfterToggle(tasks[t], tasks[t].read) : t \in TaskIds}
     /\ mcp \notin SequentialResults

\* two toggles that add aws-docs and github to an empty document: the
\* document left holds one of the two
C20_Witness ==
  /\ TwoTogglesOverlapped
  /\ tasks["a"].serverId = "aws-docs"
  /\ tasks["b"].serverId = "github"
  /\ tasks["a"].read = Doc(<<>>, FALSE)
  /\ Keys(mcp) = {"github"}

---------------------------------------------------------------------------
(* Claims about failures of the files an operation reads, checked under Spec *)

\* the environment-variables document is missing, unreadable, unparseable or
\* has no variables member
EnvVarsUnusable == env.kind # "ok"

\* an environment-variables document that does not exist
NoEnvVars == [kind |-> "absent"]

\* the group load ended as a group load with no variables ends for some
\* outcome of its write
\* the outcome of the write of the command that has just run, a successful
\* one when the command did not get as far as writing
WriteOutcome == IF last.write = "none" THEN "ok" ELSE last.write

\* the group load ended as a group load with no variables ends
GroupLoadAsWithoutVariables ==
  LET out == loadServerGroup(last.group, catalog, NoEnvVars, last.before, WriteOutcome)
  IN out.file = mcp /\ out.threw = last.threw

ToggleAsWithoutVariables ==
  LET out == toggleServer(last.serverId, last.server, NoEnvVars, last.before, WriteOutcome)
  IN out.file = mcp /\ out.threw = last.threw

RecoAsWithoutVariables ==
  \E w \in WritePairs :
    LET out == ServerLoader_loadRecommendedServers(last.recommendations, catalog,
                                                   NoEnvVars, last.before, w[1], w[2])
    IN out.file = mcp /\ out.ret = last.ret /\ out.writes = last.writes

\* C21 as stated: with an environment-variables document that is missing,
\* unreadable, unparseable or without a variables member, a recommendation
\* load, a group load and a toggle end as they end with an empty variables
\* mapping
C21_UnusableEnvVarsMeanNoVariables ==
  EnvVarsUnusable =>
     /\ (last.op = "loadGroupCommand" /\ last.called) => GroupLoadAsWithoutVariables
     /\ Toggled => ToggleAsWithoutVariables
     /\ RecoCalled => RecoAsWithoutVariables

\* C22 as stated: no failure of a catalog read, a document read, a parse or
\* a write leaves the handler of a command as an exception: the promise of
\* the group-load handler and of the toggle handler never rejects
C22_NoFailureLeavesTheHandler ==
  last.op \in {"loadGroupCommand", "toggleServerCommand"} => ~last.threw

---------------------------------------------------------------------------
(* Claims about the stages of ServerLoader.loadRecommendedServers, checked
   under SpecReco *)

WriteFailures == {"failUntouched", "failTruncated"}

\* the write of the new configuration failed and the rollback write failed too
RollbackFailed ==
  /\ RecoCalled
  /\ Len(last.writes) = 2
  /\ last.writes[1].outcome \in WriteFailures
  /\ last.writes[2].outcome \in WriteFailures

\* C23 as stated: when the write of the new configuration and the rollback
\* write both fail, the user gets the one error notification of the first
\* failure and none for the failed rollback
C23_FailedRollbackIsOnlyLogged ==
  RollbackFailed => last.notes = <<Notify("error", "Configuration write failed")>>

\* C24: an attempt goes through validation, catalog load, merge, write and
\* notification in this order.  A list with no valid record ends before the
\* catalog is read (no file-read error, whatever the catalog); the document
\* is written only with at least one merged server; the new configuration is
\* written at most once, first, and a second write is the rollback; the call
\* returns a count, positive exactly when its one write succeeded and the
\* success notification was shown.
C24_StagesInOrder ==
  RecoCalled =>
     /\ ~SomeRecordValid =>
          /\ last.writes = <<>>
          /\ \A i \in 1..Len(last.notes) : last.notes[i] # FileReadError
     /\ last.writes # <<>> =>
          /\ catalog.kind = "ok"
          /\ last.writes[1].what = "new"
          /\ DOMAIN last.writes[1].servers # {}
          /\ DOMAIN last.writes[1].servers = QualifyingIds
     /\ Cardinality({i \in 1..Len(last.writes) : last.writes[i].what = "new"}) <= 1
     /\ Len(last.writes) <= 2
     /\ last.ret \in Nat
     /\ last.ret > 0 <=>
          /\ Len(last.writes) = 1
          /\ last.writes[1].outcome = "ok"
          /\ \E i \in 1..Len(last.notes) : last.notes[i].msg = "Successfully loaded"

\* a failed write followed by the rollback write, and nothing after it
C24_Witness ==
  /\ last.op = "loadRecommendedServers"
  /\ last.recommendations = Arr(<<Rec(Str("aws-docs"), Str("r1")), Rec(Str(" "), Str("r5"))>>)
  /\ Len(last.writes) = 2
  /\ last.writes[1].what = "new"
  /\ last.writes[1].outcome = "failUntouched"
  /\ last.writes[2].what = "rollback"
  /\ last.ret = 0

---------------------------------------------------------------------------
(* Claims about HookManager.ensureHook, checked under SpecHookConfig and
   SpecActivation *)

SkippedIds ==
  { id \in CatalogKeys :
      /\ \E i \in 1..Len(RecoItems) :
           /\ RecoItems[i].t = "object"
           /\ RecoItems[i].serverId = Str(id)
           /\ RecoItems[i].reason.t = "string"
      /\ ~Falsy(catalog.servers[id])
      /\ catalog.servers[id].t # "object" }

\* C26: a valid record whose catalog entry cannot be processed is skipped,
\* and every other valid server of the list is still merged with the current
\* environment values and handed to the write; the call stops before the
\* write only when no server survives
C26_UnprocessableEntryIsSkipped ==
  (RecoCalled /\ catalog.kind = "ok") =>
     /\ QualifyingIds # {} <=> last.writes # <<>>
     /\ (SkippedIds # {} /\ QualifyingIds # {}) =>
          /\ DOMAIN last.writes[1].servers = QualifyingIds
          /\ \A id \in QualifyingIds :
               last.writes[1].servers[id] =
                 ServerLoader_mergeEnvironmentVariables(catalog.servers[id],
                                                        ServerLoader_loadWorkspaceEnvVars(env))
          /\ last.writes[1].outcome = "ok" => Keys(mcp) = QualifyingIds

C26_Witness ==
  /\ last.op = "loadRecommendedServers"
  /\ last.recommendations = Arr(<<Rec(Str("broken"), Str("r4")), Rec(Str("aws-docs"), Str("r1"))>>)
  /\ catalog.kind = "ok"
  /\ SkippedIds = {"broken"}
  /\ Keys(last.before) = {"github"}
  /\ Keys(mcp) = {"aws-docs"}

\* a record that is an object with a non-blank string serverId and a reason
WellFormedRecord(rec) ==
  /\ rec.t = "object"
  /\ rec.serverId.t = "string"
  /\ rec.serverId.v \notin {"", " "}
  /\ rec.reason.t # "undefined"

WellFormedRecords == SelectSeq(RecoItems, WellFormedRecord)

\* the outcomes of the writes of the call that has just run
FirstWrite == IF Len(last.writes) >= 1 THEN last.writes[1].outcome ELSE "ok"
SecondWrite == IF Len(last.writes) >= 2 THEN last.writes[2].outcome ELSE "ok"

\* the call on the well-formed records alone
WithoutMalformedRecords ==
  ServerLoader_loadRecommendedServers(Arr(WellFormedRecords), catalog, env,
                                      last.before, FirstWrite, SecondWrite)

\* C27: records are judged one by one.  No key is written that is not the
\* serverId of a well-formed record, the count returned counts well-formed
\* records only, and when the list has a well-formed record the call ends as it
\* ends on the list without its malformed records: same document, same
\* count, same writes, same notifications
C27_MalformedRecordsAreDroppedAlone ==
  (RecoCalled /\ last.recommendations.t = "array") =>
     /\ \A i \in 1..Len(last.writes) :
          last.writes[i].what = "new" =>
            DOMAIN last.writes[i].servers \subseteq
              {WellFormedRecords[j].serverId.v : j \in 1..Len(WellFormedRecords)}
     /\ last.ret <= Len(WellFormedRecords)
     /\ WellFormedRecords # <<>> =>
          /\ WithoutMalformedRecords.file = mcp
          /\ WithoutMalformedRecords.ret = last.ret
          /\ WithoutMalformedRecords.writes = last.writes
          /\ last.op = "loadRecommendedServers" =>
               WithoutMalformedRecords.notes = last.notes

\* a record without reason before a well-formed one: the second is written
C27_Witness ==
  /\ last.op = "loadRecommendedServers"
  /\ last.recommendations = Arr(<<Rec(Str("github"), Undefined), Rec(Str("aws-docs"), Str("r1"))>>)
  /\ catalog.kind = "ok"
  /\ last.ret = 1
  /\ Keys(mcp) = {"aws-docs"}

---------------------------------------------------------------------------
(* Claims about the notification of the toggle command, checked under
   SpecCommands *)

\* the toggle added the entry of the clicked server to the document
ToggleAdded ==
  /\ last.serverId \notin Keys(last.before)
  /\ last.serverId \in Keys(mcp)

\* the toggle removed it
ToggleRemoved ==
  /\ last.serverId \in Keys(last.before)
  /\ last.serverId \notin Keys(mcp)

\* C28 as stated: the word of the notification of a completed toggle says
\* what the toggle did to the document, also when the item clicked was
\* rendered from an older document
C28_NotificationSaysWhatWasDone ==
  (Toggled /\ ~last.threw) =>
     /\ ToggleAdded => last.notes = <<Notify("information", "added")>>
     /\ ToggleRemoved => last.notes = <<Notify("information", "removed")>>

---------------------------------------------------------------------------
(* Claims about the rollback of ServerLoader.loadRecommendedServers, checked
   under SpecReco *)

\* there was no document, or one that could not be parsed, before the call
NoUsableDocumentBefore == last.before.kind \in {"absent", "corrupt"}

\* C30 as stated: when there was no document, or an unparseable one, and the
\* write of the new configuration fails, the rollback leaves things as they
\* were: no document with an empty mcpServers appears
C30_RollbackCreatesNoDocument ==
  (RecoCalled /\ NewWriteFailed /\ NoUsableDocumentBefore) =>
     mcp # Doc(<<>>, FALSE)

====
